---- MODULE Spec2Model ----
(***************************************************************************)
(* Model of the Argyle ISD AI Guide (src/app.py, src/run.py): the text     *)
(* normaliser clean_text, the scraper scrape_url, the corpus builder       *)
(* load_argyle_data, the index builder get_vectorstore, and the Streamlit  *)
(* script run of main() with its two process-wide caches and the on-disk   *)
(* Chroma collection.                                                      *)
(*                                                                         *)
(* A Python str is modelled as a sequence of characters; a character is a  *)
(* one-character string, except the non-ASCII letter e-acute, which is     *)
(* written by its code point "U+00E9".                                     *)
(***************************************************************************)
EXTENDS Integers, Sequences, FiniteSets, TLC

\* ------------------------------------------------------------------ bounds

\* Longest input string given to clean_text in SpecClean.
MaxLen == 5

\* How many URLs of the list of get_argyle_urls the model scrapes (its first ones).
NumUrls == 3

\* How many times load_argyle_data may run in one behaviour: a manual refresh
\* or a process start is offered only while fewer loads have run.
MaxBuilds == 2

\* --------------------------------------------------------- program constants

\* content[:5000] in scrape_url.
ContentLimit == 5000

\* search_kwargs={"k": 5} in get_qa_chain.
RetrieverK == 5

\* result["source_documents"][:3] in main.
SourcesShown == 3

\* ------------------------------------------------------- characters, regex

\* Python's \s on a str pattern: Unicode whitespace (space, newline, tab here).
IsSpace(c) == c \in {" ", "\n", "\t"}

\* Python's \w on a str pattern: Unicode letters and digits, and the underscore.
IsWord(c) == c \in {"a", "b", "7", "_", "U+00E9"}

\* The punctuation the second pattern of clean_text names: . , ! ? ; : ( ) -
Punct == {".", ",", "!", "?", ";", ":", "(", ")", "-"}

\* The characters the inputs are drawn from: an ASCII letter, a digit, the
\* underscore, a non-ASCII letter, two whitespace characters, a special
\* character and one of the kept punctuation marks.
Alphabet == {"a", "7", "_", "U+00E9", " ", "\n", "#", "."}

\* re.sub(r'\s+', ' ', text): every maximal run of whitespace becomes one space.
\* The first character of a run is replaced by the space and the others of the
\* run are dropped ("" stands for a dropped character).
CollapseWhitespace(s) ==
    LET Replaced(k) == IF ~IsSpace(s[k]) THEN s[k]
                       ELSE IF k > 1 /\ IsSpace(s[k - 1]) THEN "" ELSE " "
        Present(c) == c # ""
    IN  SelectSeq([k \in 1..Len(s) |-> Replaced(k)], Present)

\* re.sub(r'[^\w\s.,!?;:()\-]', '', text): delete every character outside the class.
DeleteSpecial(s) ==
    LET Keep(c) == IsWord(c) \/ IsSpace(c) \/ c \in Punct
    IN  SelectSeq(s, Keep)

RECURSIVE LStrip(_)
LStrip(s) == IF s # <<>> /\ IsSpace(Head(s)) THEN LStrip(Tail(s)) ELSE s

RECURSIVE RStrip(_)
RStrip(s) ==
    IF s # <<>> /\ IsSpace(s[Len(s)]) THEN RStrip(SubSeq(s, 1, Len(s) - 1)) ELSE s

\* str.strip(): leading and trailing whitespace removed.
Strip(s) == RStrip(LStrip(s))

clean_text(text) == Strip(DeleteSpecial(CollapseWhitespace(text)))

\* --------------------------------------------------- scraping one URL

Min(a, b) == IF a < b THEN a ELSE b

AllUrls ==
    << "https://www.argyleisd.com/",
       "https://www.argyleisd.com/about",
       "https://www.argyleisd.com/board-of-trustees",
       "https://www.argyleisd.com/schools",
       "https://www.argyleisd.com/departments",
       "https://www.argyleisd.com/calendars",
       "https://www.argyleisd.com/employment",
       "https://www.argyleisd.com/departments/transportation",
       "https://www.argyleisd.com/departments/human-resources",
       "https://www.argyleisd.com/all-news",
       "https://www.argyleisd.com/about/faqs",
       "https://www.argyleisd.com/future/bonds",
       "https://www.argyleisd.com/staff",
       "https://www.argyleisd.com/directory" >>

get_argyle_urls == SubSeq(AllUrls, 1, Min(NumUrls, Len(AllUrls)))

\* A page longer than the content limit, with a space as its 5000th character.
LongBody == [k \in 1..(ContentLimit + 2) |-> IF k = ContentLimit THEN " " ELSE "a"]

\* What requests.get and raise_for_status give for one URL: an HTTP error
\* status, a network error or timeout, or a page. A page is its title element
\* (None when it has none) and the text soup.get_text() returns once the script
\* and style elements are removed.
Page(title, body) == [kind |-> "ok", title |-> title, body |-> body]

Failures == {[kind |-> "http_error"], [kind |-> "timeout"]}

\* The responses of the full pipeline.
Responses ==
    Failures \cup {Page("Home", <<"#">>), Page("Home", <<"a", " ", "#", " ", "b">>)}

\* The responses load_argyle_data is checked on by itself.
AllResponses ==
    Failures \cup
    {Page("None", <<"#">>), Page("Home", <<"a", " ", "#", " ", "b">>), Page("Home", LongBody)}

\* content[:5000]
Truncate(s) == SubSeq(s, 1, Min(Len(s), ContentLimit))

\* scrape_url without its try/except: a failed request raises to the caller.
scrape_url_unguarded(url, r) ==
    IF r.kind = "ok"
    THEN [kind |-> "data", url |-> url,
          title |-> IF r.title = "None" THEN "No Title" ELSE r.title,
          content |-> Truncate(clean_text(r.body))]
    ELSE [kind |-> "raise"]

\* scrape_url without the [:5000] slice.
scrape_url_untruncated(url, r) ==
    IF r.kind = "ok"
    THEN [kind |-> "data", url |-> url,
          title |-> IF r.title = "None" THEN "No Title" ELSE r.title,
          content |-> clean_text(r.body)]
    ELSE [kind |-> "none"]

\* scrape_url: the record of the page, or None after st.warning when the
\* request raised. An exception never leaves it ("raise" is what a caller
\* would see if one did).
scrape_url(url, r) ==
    IF r.kind = "ok"
    THEN [kind |-> "data", url |-> url,
          title |-> IF r.title = "None" THEN "No Title" ELSE r.title,
          content |-> Truncate(clean_text(r.body))]
    ELSE [kind |-> "none"]

\* Document(page_content=..., metadata={"source": ..., "title": ...})
Document(data) == [text |-> data.content, source |-> data.url, title |-> data.title]

\* ------------------------------------------------------------------- state

VARIABLES
    pc,          \* where the process is: "off" | "exited" | "import" | "crashed" |
                 \* "sidebar" | "refresh" | "init" | "scrape" | "index" | "qa" |
                 \* "ask" | "idle" | "stopped"
    trigger,     \* what started this script run: "launch" | "interaction" | "refresh"
    apiKey,      \* OPENAI_API_KEY in the environment: "absent" | "empty" | "set"
    dataStatus,  \* st.cache_data entry of load_argyle_data: "absent" | "building" | "ready"
    dataValue,   \* its value: the list of Documents
    resStatus,   \* st.cache_resource entry of get_vectorstore
    resValue,    \* its value: "None" | "store"
    qaStatus,    \* st.cache_resource entry of get_qa_chain: "absent" | "ready"
    sessionQa,   \* st.session_state.qa_chain is set
    i,           \* load_argyle_data: URLs processed so far
    docs,        \* load_argyle_data: docs; get_vectorstore: docs
    seen,        \* the responses received in this script run, in order
    warned,      \* the URLs st.warning was called for in this script run
    diskExists,  \* ./chroma_db_real exists
    diskEntries, \* the entries of collection argyleisd_real, in insertion order
    builds,      \* executions of load_argyle_data so far
    fetches,     \* requests.get calls so far
    uiError,     \* st.error of this run: "none" | "kb_failed" | "init_failed"
    keyStatus,   \* sidebar: "unset" | "Connected" | "Not configured"
    dbStatus,    \* sidebar: "unset" | "Ready" | "Building"
    uiQuery,     \* outcome of this run's query: "none" | "answered" | "error"
    shown,       \* sources listed under the answer
    input,       \* SpecClean: the string given to clean_text
    once,        \* SpecClean: clean_text(input)
    twice,       \* SpecClean: clean_text(clean_text(input))
    cpc          \* SpecClean: "idle" | "raw" | "once" | "twice"

cleanVars == <<input, once, twice, cpc>>

cacheVars == <<dataStatus, dataValue, resStatus, resValue, qaStatus>>

loadVars == <<i, docs, seen, warned>>

diskVars == <<diskExists, diskEntries>>

uiVars == <<uiError, keyStatus, dbStatus, uiQuery, shown>>

appVars ==
    <<pc, trigger, apiKey, cacheVars, sessionQa, loadVars, diskVars, builds, fetches, uiVars>>

vars == <<appVars, cleanVars>>

\* All strings over Alphabet of length at most n.
Strings(n) == UNION {[1..k -> Alphabet] : k \in 0..n}

CleanIdle == input = <<>> /\ once = <<>> /\ twice = <<>> /\ cpc = "idle"

\* No process is running, nothing is cached and nothing is on disk.
AppOff ==
    /\ pc = "off" /\ trigger = "launch" /\ apiKey = "absent"
    /\ dataStatus = "absent" /\ dataValue = <<>>
    /\ resStatus = "absent" /\ resValue = "None" /\ qaStatus = "absent"
    /\ sessionQa = FALSE
    /\ i = 0 /\ docs = <<>> /\ seen = <<>> /\ warned = <<>>
    /\ diskExists = FALSE /\ diskEntries = <<>>
    /\ builds = 0 /\ fetches = 0
    /\ uiError = "none" /\ keyStatus = "unset" /\ dbStatus = "unset"
    /\ uiQuery = "none" /\ shown = 0

\* ------------------------------------------------------ starting a process

\* The in-memory state of a process that has just started: both caches and
\* the session are empty; the directory on disk is what the last process left.
FreshProcess ==
    /\ trigger' = "launch"
    /\ dataStatus' = "absent" /\ dataValue' = <<>>
    /\ resStatus' = "absent" /\ resValue' = "None" /\ qaStatus' = "absent"
    /\ sessionQa' = FALSE
    /\ i' = 0 /\ docs' = <<>> /\ seen' = <<>> /\ warned' = <<>>
    /\ uiError' = "none" /\ keyStatus' = "unset" /\ dbStatus' = "unset"
    /\ uiQuery' = "none" /\ shown' = 0
    /\ UNCHANGED <<diskVars, builds, fetches, cleanVars>>

\* A process can be started when none is running or the running one is
\* between two script runs (it is stopped first).
CanStart == pc \in {"off", "exited", "crashed", "idle", "stopped"} /\ builds < MaxBuilds

\* python run.py: both variables must be set and non-empty, or the launcher
\* exits with status 1 without starting Streamlit.
LauncherStart ==
    /\ CanStart
    /\ \E openai \in {"absent", "empty", "set"}, firecrawl \in {"absent", "empty", "set"} :
        /\ apiKey' = openai
        /\ pc' = IF openai = "set" /\ firecrawl = "set" THEN "import" ELSE "exited"
    /\ FreshProcess

\* streamlit run app.py, without the launcher.
DirectStart ==
    /\ CanStart
    /\ apiKey' \in {"absent", "empty", "set"}
    /\ pc' = "import"
    /\ FreshProcess

\* ------------------------------------------------------------ a script run

\* Lines 19-20 of app.py, run at the top of every script run:
\* os.environ["OPENAI_API_KEY"] = os.getenv("OPENAI_API_KEY") raises TypeError
\* when the variable is absent (None is not a str), and the run ends there.
ImportModule ==
    /\ pc = "import"
    /\ pc' = IF apiKey = "absent" THEN "crashed" ELSE "sidebar"
    /\ UNCHANGED <<trigger, apiKey, cacheVars, sessionQa, loadVars, diskVars, builds,
                   fetches, uiVars, cleanVars>>

\* The sidebar of main(): the two status lines, then the Refresh Data button.
Sidebar ==
    /\ pc = "sidebar"
    /\ dbStatus' = IF diskExists THEN "Ready" ELSE "Building"
    /\ keyStatus' = IF apiKey = "set" THEN "Connected" ELSE "Not configured"
    /\ pc' = IF trigger = "refresh" THEN "refresh" ELSE "init"
    /\ UNCHANGED <<trigger, apiKey, cacheVars, sessionQa, loadVars, diskVars, builds,
                   fetches, uiError, uiQuery, shown, cleanVars>>

\* The button's body with st.cache_data.clear() left out.
RefreshDataResourceOnly ==
    /\ pc = "refresh"
    /\ resStatus' = "absent" /\ resValue' = "None" /\ qaStatus' = "absent"
    /\ trigger' = "interaction"
    /\ pc' = "import"
    /\ seen' = <<>> /\ warned' = <<>>
    /\ uiError' = "none" /\ keyStatus' = "unset" /\ dbStatus' = "unset"
    /\ uiQuery' = "none" /\ shown' = 0
    /\ UNCHANGED <<apiKey, dataStatus, dataValue, sessionQa, i, docs, diskVars, builds,
                   fetches, cleanVars>>

\* The button's body: st.cache_data.clear(); st.cache_resource.clear();
\* st.rerun(), which ends this run and starts the script again.
RefreshData ==
    /\ pc = "refresh"
    /\ dataStatus' = "absent" /\ dataValue' = <<>>
    /\ resStatus' = "absent" /\ resValue' = "None" /\ qaStatus' = "absent"
    /\ trigger' = "interaction"
    /\ pc' = "import"
    /\ seen' = <<>> /\ warned' = <<>>
    /\ uiError' = "none" /\ keyStatus' = "unset" /\ dbStatus' = "unset"
    /\ uiQuery' = "none" /\ shown' = 0
    /\ UNCHANGED <<apiKey, sessionQa, i, docs, diskVars, builds, fetches, cleanVars>>

\* main() calls get_vectorstore(): a cached value is returned as it is;
\* otherwise the function runs and calls load_argyle_data(), which returns its
\* cached list or starts scraping.
CallGetVectorstore ==
    /\ pc = "init"
    /\ IF resStatus = "ready"
       THEN /\ pc' = IF resValue = "None" THEN "stopped" ELSE "qa"
            /\ uiError' = IF resValue = "None" THEN "kb_failed" ELSE uiError
            /\ UNCHANGED <<cacheVars, i, docs, builds>>
       ELSE /\ resStatus' = "building"
            /\ IF dataStatus = "ready"
               THEN /\ docs' = dataValue
                    /\ pc' = "index"
                    /\ UNCHANGED <<dataStatus, i, builds>>
               ELSE /\ dataStatus' = "building"
                    /\ docs' = <<>>
                    /\ i' = 0
                    /\ builds' = builds + 1
                    /\ pc' = "scrape"
            /\ UNCHANGED <<dataValue, resValue, qaStatus, uiError>>
    /\ UNCHANGED <<trigger, apiKey, sessionQa, seen, warned, diskVars, fetches,
                   keyStatus, dbStatus, uiQuery, shown, cleanVars>>

\* One iteration of the loop of load_argyle_data, on a response drawn from R.
\* The loop has no handler: an exception out of scrape_url would leave
\* load_argyle_data and get_vectorstore with nothing cached and reach the
\* except clause of main().
ScrapeStep(R) ==
    /\ pc = "scrape"
    /\ i < Len(get_argyle_urls)
    /\ \E r \in R :
        LET url == get_argyle_urls[i + 1]
            data == scrape_url(url, r)
        IN  /\ seen' = Append(seen, r)
            /\ fetches' = fetches + 1
            /\ IF data.kind = "raise"
               THEN /\ dataStatus' = "absent" /\ resStatus' = "absent"
                    /\ uiError' = "init_failed"
                    /\ pc' = "stopped"
                    /\ UNCHANGED <<i, docs, warned>>
               ELSE /\ warned' = IF data.kind = "none" THEN Append(warned, url) ELSE warned
                    /\ docs' = IF data.kind = "data" /\ data.content # <<>>
                               THEN Append(docs, Document(data))
                               ELSE docs
                    /\ i' = i + 1
                    /\ UNCHANGED <<pc, dataStatus, resStatus, uiError>>
    /\ UNCHANGED <<trigger, apiKey, dataValue, resValue, qaStatus, sessionQa, diskVars,
                   builds, keyStatus, dbStatus, uiQuery, shown, cleanVars>>

ScrapePage == ScrapeStep(Responses)

ScrapeAnyPage == ScrapeStep(AllResponses)

\* The loop is over: load_argyle_data returns docs, which st.cache_data keeps.
LoadReturn ==
    /\ pc = "scrape"
    /\ i = Len(get_argyle_urls)
    /\ dataStatus' = "ready"
    /\ dataValue' = docs
    /\ pc' = "index"
    /\ UNCHANGED <<trigger, apiKey, resStatus, resValue, qaStatus, sessionQa, loadVars,
                   diskVars, builds, fetches, uiVars, cleanVars>>

\* The (document, metadata) entries Chroma adds for a list of Documents, one
\* per Document, each under a fresh id.
Entries(ds) ==
    [k \in 1..Len(ds) |->
        [document |-> ds[k].text,
         metadata |-> [source |-> ds[k].source, title |-> ds[k].title]]]

\* Chroma.from_documents(documents, embedding, collection_name, persist_directory):
\* gets or creates the collection in the directory and adds the documents to it.
FromDocuments(entries, ds) == entries \o Entries(ds)

\* get_vectorstore without its "if not docs" test: the index is built from
\* whatever list it is given.
BuildIndexUnchecked ==
    /\ pc = "index"
    /\ diskEntries' = FromDocuments(diskEntries, docs)
    /\ diskExists' = TRUE
    /\ resStatus' = "ready" /\ resValue' = "store"
    /\ pc' = "qa"
    /\ UNCHANGED <<trigger, apiKey, dataStatus, dataValue, qaStatus, sessionQa, loadVars,
                   builds, fetches, uiVars, cleanVars>>

\* The rest of get_vectorstore, and what main() does with its result.
\* No documents: st.error and return None (which st.cache_resource keeps), and
\* main() reports the failure and returns. Otherwise OpenAIEmbeddings and
\* Chroma.from_documents run; an exception from either (an empty key is refused
\* before Chroma is touched, a failed embedding request after the client has
\* opened the directory) leaves get_vectorstore uncached and is reported by
\* the except clause of main().
BuildIndex ==
    /\ pc = "index"
    /\ IF docs = <<>>
       THEN /\ resStatus' = "ready" /\ resValue' = "None"
            /\ uiError' = "kb_failed"
            /\ pc' = "stopped"
            /\ UNCHANGED diskVars
       ELSE \E embedded \in IF apiKey = "set" THEN BOOLEAN ELSE {FALSE} :
            IF embedded
            THEN /\ diskEntries' = FromDocuments(diskEntries, docs)
                 /\ diskExists' = TRUE
                 /\ resStatus' = "ready" /\ resValue' = "store"
                 /\ pc' = "qa"
                 /\ UNCHANGED uiError
            ELSE /\ diskExists' = (diskExists \/ apiKey = "set")
                 /\ resStatus' = "absent"
                 /\ uiError' = "init_failed"
                 /\ pc' = "stopped"
                 /\ UNCHANGED <<diskEntries, resValue>>
    /\ UNCHANGED <<trigger, apiKey, dataStatus, dataValue, qaStatus, sessionQa, loadVars,
                   builds, fetches, keyStatus, dbStatus, uiQuery, shown, cleanVars>>

\* get_qa_chain(vectorstore), cached without regard to its argument, and the
\* two assignments to st.session_state.
GetQaChain ==
    /\ pc = "qa"
    /\ qaStatus' = "ready"
    /\ sessionQa' = TRUE
    /\ pc' = "ask"
    /\ UNCHANGED <<trigger, apiKey, dataStatus, dataValue, resStatus, resValue, loadVars,
                   diskVars, builds, fetches, uiVars, cleanVars>>

\* The text input is empty: the run ends with the form shown.
NoQuestion ==
    /\ pc = "ask"
    /\ pc' = "idle"
    /\ UNCHANGED <<trigger, apiKey, cacheVars, sessionQa, loadVars, diskVars, builds,
                   fetches, uiVars, cleanVars>>

\* The documents the retriever returns: at most k of the collection's entries.
Retrieved == Min(RetrieverK, Len(diskEntries))

\* A failed query that also drops the cached index and chain.
QueryDroppingCache ==
    /\ pc = "ask"
    /\ sessionQa
    /\ \E answered \in BOOLEAN :
        /\ uiQuery' = IF answered THEN "answered" ELSE "error"
        /\ shown' = IF answered THEN Min(SourcesShown, Retrieved) ELSE 0
        /\ resStatus' = IF answered THEN resStatus ELSE "absent"
        /\ qaStatus' = IF answered THEN qaStatus ELSE "absent"
    /\ pc' = "idle"
    /\ UNCHANGED <<trigger, apiKey, dataStatus, dataValue, resValue, sessionQa, loadVars,
                   diskVars, builds, fetches, uiError, keyStatus, dbStatus, cleanVars>>

\* A question was entered: qa_chain.invoke either returns an answer with its
\* source documents, of which the first three are listed, or raises, and the
\* except clause shows the error.
Query ==
    /\ pc = "ask"
    /\ sessionQa
    /\ \E answered \in BOOLEAN :
        /\ uiQuery' = IF answered THEN "answered" ELSE "error"
        /\ shown' = IF answered THEN Min(SourcesShown, Retrieved) ELSE 0
    /\ pc' = "idle"
    /\ UNCHANGED <<trigger, apiKey, cacheVars, sessionQa, loadVars, diskVars, builds,
                   fetches, uiError, keyStatus, dbStatus, cleanVars>>

\* What a new script run starts with: an empty page.
NewRun ==
    /\ pc' = "import"
    /\ seen' = <<>> /\ warned' = <<>>
    /\ uiError' = "none" /\ keyStatus' = "unset" /\ dbStatus' = "unset"
    /\ uiQuery' = "none" /\ shown' = 0
    /\ UNCHANGED <<apiKey, cacheVars, sessionQa, i, docs, diskVars, builds, fetches,
                   cleanVars>>

\* The user reloads the page or edits the question: Streamlit runs the script again.
Interact ==
    /\ pc \in {"idle", "stopped", "crashed"}
    /\ trigger' = "interaction"
    /\ NewRun

\* The user clicks Refresh Data: the script runs again with the button set.
ClickRefresh ==
    /\ pc \in {"idle", "stopped"}
    /\ builds < MaxBuilds
    /\ trigger' = "refresh"
    /\ NewRun

\* ------------------------------------------------------- the specifications

Init == AppOff /\ CleanIdle

Next ==
    \/ LauncherStart
    \/ DirectStart
    \/ ImportModule
    \/ Sidebar
    \/ RefreshData
    \/ CallGetVectorstore
    \/ ScrapePage
    \/ LoadReturn
    \/ BuildIndex
    \/ GetQaChain
    \/ NoQuestion
    \/ Query
    \/ Interact
    \/ ClickRefresh

Spec == Init /\ [][Next]_vars

\* load_argyle_data by itself: the state in which a first script run, with the
\* key set, enters it with nothing cached.
InitLoad ==
    /\ pc = "scrape" /\ trigger = "launch" /\ apiKey = "set"
    /\ dataStatus = "building" /\ dataValue = <<>>
    /\ resStatus = "building" /\ resValue = "None" /\ qaStatus = "absent"
    /\ sessionQa = FALSE
    /\ i = 0 /\ docs = <<>> /\ seen = <<>> /\ warned = <<>>
    /\ diskExists = FALSE /\ diskEntries = <<>>
    /\ builds = 1 /\ fetches = 0
    /\ uiError = "none" /\ keyStatus = "Connected" /\ dbStatus = "Building"
    /\ uiQuery = "none" /\ shown = 0
    /\ CleanIdle

NextLoad == ScrapeAnyPage \/ LoadReturn

SpecLoad == InitLoad /\ [][NextLoad]_vars

\* ------------------------------------------------- clean_text, on its own

InitClean ==
    /\ AppOff
    /\ input \in Strings(MaxLen) /\ once = <<>> /\ twice = <<>> /\ cpc = "raw"

CleanOnce ==
    /\ cpc = "raw"
    /\ once' = clean_text(input)
    /\ cpc' = "once"
    /\ UNCHANGED <<input, twice, appVars>>

CleanTwice ==
    /\ cpc = "once"
    /\ twice' = clean_text(once)
    /\ cpc' = "twice"
    /\ UNCHANGED <<input, once, appVars>>

NextClean == CleanOnce \/ CleanTwice

SpecClean == InitClean /\ [][NextClean]_vars

\* ----------------------------------------------------------------- claims

Urls == get_argyle_urls

\* The list ds holds a Document whose source is the j-th URL.
HasDoc(ds, j) == \E k \in 1..Len(ds) : ds[k].source = Urls[j]

\* The j-th response of this load was a page.
Fetched(j) == seen[j].kind = "ok"

\* The j-th response was a page whose normalised content is not empty.
Usable(j) == Fetched(j) /\ clean_text(seen[j].body) # <<>>

\* load_argyle_data has not been left by an exception.
LoadNotAborted == pc \in {"scrape", "index"} /\ uiError = "none"

\* C1 as stated: whatever the outcome of each URL, load_argyle_data processes
\* every URL, never raises because one failed, skips each failing URL, and
\* returns a non-empty corpus whenever at least one URL succeeds.
C1_NonEmptyWhenAnyFetched ==
    /\ LoadNotAborted
    /\ dataStatus = "ready" => Len(seen) = Len(Urls)
    /\ \A j \in 1..Len(seen) : ~Fetched(j) => ~HasDoc(docs, j)
    /\ (dataStatus = "ready" /\ \E j \in 1..Len(seen) : Fetched(j)) => dataValue # <<>>

\* C1, amended: load_argyle_data processes every URL, never raises because one
\* failed, skips each failing URL, and returns a non-empty corpus whenever at
\* least one URL succeeds with non-empty normalised content.
C1_NonEmptyWhenAnyUsable ==
    /\ LoadNotAborted
    /\ dataStatus = "ready" => Len(seen) = Len(Urls)
    /\ \A j \in 1..Len(seen) : ~Fetched(j) => ~HasDoc(docs, j)
    /\ (dataStatus = "ready" /\ \E j \in 1..Len(seen) : Usable(j)) => dataValue # <<>>

\* A load that met an HTTP error, a timeout and a usable page has returned.
C1_Witness ==
    /\ dataStatus = "ready"
    /\ \E j \in 1..Len(seen) : seen[j].kind = "http_error"
    /\ \E j \in 1..Len(seen) : seen[j].kind = "timeout"
    /\ \E j \in 1..Len(seen) : Usable(j)
    /\ Len(dataValue) = 1

\* C9: every URL the corpus builder skips, because the fetch failed or because
\* the normalised content is empty, is skipped with a warning for that URL.
C9_EverySkipWarned ==
    \A j \in 1..Len(seen) :
        ~HasDoc(docs, j) => \E w \in 1..Len(warned) : warned[w] = Urls[j]

\* t is what content[:5000] leaves of c.
IsTruncationOf(t, c) ==
    /\ Len(t) <= ContentLimit
    /\ Len(t) <= Len(c)
    /\ t = SubSeq(c, 1, Len(t))
    /\ Len(t) = Len(c) \/ Len(t) = ContentLimit

\* C10: the corpus load_argyle_data returns is the order-preserving subsequence
\* of the URL list made of the URLs scraped with non-empty content: one Document
\* per such URL, in list order, whose source is the URL and whose text is the
\* non-empty normalised content cut to at most 5000 characters; no Document
\* exists for any other URL.
C10_CorpusIsSurvivors ==
    dataStatus = "ready" =>
        LET survivors == SelectSeq([j \in 1..Len(seen) |-> j], Usable)
        IN  /\ Len(dataValue) = Len(survivors)
            /\ \A k \in 1..Len(survivors) :
                /\ dataValue[k].source = Urls[survivors[k]]
                /\ dataValue[k].text # <<>>
                /\ IsTruncationOf(dataValue[k].text, clean_text(seen[survivors[k]].body))

\* A returned corpus of two Documents around a skipped URL, the second one cut
\* at the limit.
C10_Witness ==
    /\ dataStatus = "ready"
    /\ Len(seen) >= 3
    /\ Usable(1) /\ ~Usable(2) /\ Usable(3)
    /\ Len(dataValue) = 2
    /\ dataValue[1].source = Urls[1] /\ dataValue[2].source = Urls[3]
    /\ Len(clean_text(seen[3].body)) > ContentLimit
    /\ Len(dataValue[2].text) = ContentLimit

\* The ASCII letters and digits.
AsciiAlnum == {"a", "b", "7"}

\* C4: normalisation is idempotent: clean_text(clean_text(s)) = clean_text(s)
\* for every input s, also when a deleted character sits between two
\* whitespace characters.
C4_Idempotent == cpc = "twice" => twice = once

\* C5: the normalised content holds only ASCII letters, digits, whitespace and
\* the punctuation . , ! ? ; : ( ) - ; the underscore and non-ASCII letters are
\* deleted like every other character.
C5_OnlyAllowedChars ==
    cpc \in {"once", "twice"} =>
        \A k \in 1..Len(once) :
            once[k] \in AsciiAlnum \/ IsSpace(once[k]) \/ once[k] \in Punct

\* A step that starts a process: the caches of the one before are gone.
ProcessStarts == trigger' = "launch" /\ pc' \in {"import", "exited"}

\* C2: when no Document survives ingestion, the corpus builder returns an empty
\* list without raising, the index builder reports the empty corpus instead of
\* building, main() reports the failed initialisation and stops before the
\* question form, and nothing is written to disk in that build cycle.
C2_EmptyCorpusStops ==
    /\ [][ /\ (pc = "scrape" /\ i = Len(Urls) /\ docs = <<>>) =>
                (pc' = "index" /\ dataStatus' = "ready" /\ dataValue' = <<>>)
           /\ (pc = "index" /\ docs = <<>>) =>
                /\ pc' = "stopped"
                /\ uiError' = "kb_failed"
                /\ resStatus' = "ready" /\ resValue' = "None"
                /\ UNCHANGED diskVars
           /\ pc \in {"init", "scrape"} => UNCHANGED diskVars
           /\ pc = "stopped" => (pc' \in {"stopped", "import"} \/ ProcessStarts)
         ]_vars
    /\ [](pc \in {"qa", "ask", "idle"} => dataStatus = "ready" /\ dataValue # <<>>)

\* Every fetch of a load failed or gave no content, and the run has stopped
\* with the failure on the page and no directory on disk.
C2_Witness ==
    /\ pc = "stopped"
    /\ Len(seen) = Len(Urls)
    /\ \E j \in 1..Len(seen) : ~Fetched(j)
    /\ dataStatus = "ready" /\ dataValue = <<>>
    /\ resStatus = "ready" /\ resValue = "None"
    /\ uiError = "kb_failed"
    /\ ~diskExists

\* C3: with the API key variable absent at startup the program does not crash:
\* the sidebar reports the provider as not configured and the initialisation
\* of the pipeline is blocked with a message.
C3_AbsentKeyReported ==
    (apiKey = "absent" /\ pc \notin {"off", "exited", "import"}) =>
        /\ pc # "crashed"
        /\ pc # "sidebar" => keyStatus = "Not configured"
        /\ fetches = 0 /\ pc \notin {"scrape", "index", "qa", "ask", "idle"}

\* C6: after any sequence of builds, refreshes and restarts the collection on
\* disk holds exactly one entry per Document of the corpus of the most recent
\* build; a rebuild never adds to the entries of an earlier build.
C6_IndexIsLatestCorpus ==
    (resStatus = "ready" /\ resValue = "store") => diskEntries = Entries(dataValue)

C8_FailedQueryFrame ==
    /\ [][ (pc = "ask" /\ uiQuery' = "error") =>
               (pc' = "idle" /\ UNCHANGED <<cacheVars, diskVars, sessionQa>>) ]_vars
    /\ [](uiQuery # "none" =>
               resStatus = "ready" /\ resValue = "store" /\ qaStatus = "ready")

\* A query has failed and the index it ran against is still cached and on disk.
C8_Witness ==
    /\ uiQuery = "error"
    /\ pc = "idle"
    /\ resStatus = "ready" /\ resValue = "store" /\ qaStatus = "ready"
    /\ diskEntries # <<>>

====
